---- MODULE Spec2Model ----
(***************************************************************************)
(* Activity tracker of src/src/main.js: the 1-second sampling loop         *)
(* (checkActivity), the session store (loadData / saveData), the tray      *)
(* Quit handler and process start.                                         *)
(*                                                                         *)
(* Time is the wall clock in milliseconds (Date.now()).  checkActivity is  *)
(* an async function: it runs synchronously up to `await                   *)
(* isChromeRunning()`, is resumed when that probe resolves, awaits         *)
(* getIdleTime(), and runs synchronously to its end when that resolves.    *)
(* Each synchronous stretch is one action; every clock read inside one     *)
(* stretch returns the same instant.  The clock advances between actions,  *)
(* by a timer period or by a long gap (a suspended machine, a starved      *)
(* event loop): setInterval promises no callback earlier than its period,  *)
(* and nothing about how late one may be.                                  *)
(*                                                                         *)
(* The store is the JSON file DATA_FILE.  It is missing, unparsable, or a   *)
(* mapping from dates to day records.  The file system may refuse any read *)
(* or write (a locked file, a full disk): readFileSync / writeFileSync     *)
(* then throw, loadData and saveData catch and log.  Both sensors are      *)
(* child processes that may fail.                                          *)
(*                                                                         *)
(* Spec is the first run of the program (no DATA_FILE yet) on a file       *)
(* system that refuses nothing; SpecStore starts from any of InitialFiles  *)
(* and lets the file system refuse any store call.                         *)
(*                                                                         *)
(* trackingData.lastActiveTime is left out: nothing reads it but the       *)
(* renderer.                                                               *)
(***************************************************************************)
EXTENDS Integers, Sequences, FiniteSets, TLC

(* ---------------------------------------------------------------- bounds *)

\* Steps of checkActivity that may be between their start and their end.
MaxInFlight == 2
\* Timer periods the clock may advance, besides the long gaps.
MaxTicks == 2
\* Long gaps the clock may advance.
MaxLongGaps == 2
\* Process starts after the first.
MaxRestarts == 1

(* ------------------------------------------------------ program constants *)

null == 0
TickMs == 1000
IdleLimit == 120
H6 == 21600
H8 == 28800
H10 == 36000
DayMs == 24 * 60 * 60 * 1000

(* ------------------------------------------------------------ environment *)

\* Local time is UTC-3 (no daylight saving inside the horizon).
TzOffsetMs == 0 - 3 * 60 * 60 * 1000
\* A long gap: six hours, one second and a fraction.
LongGapMs == 6 * 60 * 60 * 1000 + TickMs + 400
\* The process first starts at 23:59:57.500 local time of local day 0.
T0 == DayMs - 3 * TickMs + TickMs \div 2 - TzOffsetMs
Deltas == {TickMs, LongGapMs}
\* The timer periods and the long gaps the clock has advanced by time t.
ticksAt(t) == ((t - T0) % LongGapMs) \div TickMs
gapsAt(t) == (t - T0) \div LongGapMs
\* Idle seconds the idle probe may report.
IdleSamples == {119, 120}
\* A session some earlier run of the program stored: 09:00:00 to 09:00:05
\* local time of the day before local day 0.
EarlierDay == 0 - 1
EarlierStart == EarlierDay * DayMs - TzOffsetMs + 9 * 60 * 60 * 1000
EarlierSession ==
    [start |-> [day |-> EarlierStart \div DayMs, ms |-> EarlierStart % DayMs],
     end |-> [day |-> EarlierStart \div DayMs,
              ms |-> (EarlierStart % DayMs) + 5 * TickMs],
     duration |-> 5]

VARIABLES
    now,                 \* Date.now()
    running,             \* the process is alive
    life,                \* number of the process lifetime
    elapsed,             \* time since the interval timer was armed or fired,
                         \* up to its period
    currentSessionStart, \* trackingData.currentSessionStart (null = 0)
    sessions,            \* trackingData.sessions
    currentDate,         \* trackingData.currentDate
    status,              \* trackingData.status
    isTracking,          \* trackingData.isTracking
    notificationsSent,   \* trackingData.notificationsSent
    file,                \* DATA_FILE
    io,                  \* the store call of the last action, if any, and
                         \* whether the file system refused it
    inflight,            \* how many calls of checkActivity are suspended at
                         \* each await
    notifications,       \* every Notification shown so far
    emitted,             \* the 'update-time' message of the last action, if any
    sample               \* sensor samples of the step that completed last

vars == <<now, running, life, elapsed, currentSessionStart, sessions,
          currentDate, status, isTracking, notificationsSent, file, io,
          inflight, notifications, emitted, sample>>

tracking == <<currentSessionStart, sessions, currentDate, status, isTracking,
              notificationsSent>>

(* ------------------------------------------------------------------ dates *)

\* Local calendar day of an instant, as the number of the day.
getLocalDateStr(t) == (t + TzOffsetMs) \div DayMs

\* new Date(y, m, d) of the local day of t: 00:00:00 local.
startOfDay(t) == getLocalDateStr(t) * DayMs - TzOffsetMs

\* Date.prototype.toISOString: the UTC calendar day and the time of day.
toISOString(t) == [day |-> t \div DayMs, ms |-> t % DayMs]

\* new Date(iso): the instant an ISO string names.
parseDate(iso) == iso.day * DayMs + iso.ms

(* ------------------------------------------------------------------ store *)

NoData == [d \in {} |-> [total |-> 0, sessions |-> <<>>]]

RECURSIVE sumDuration(_)
sumDuration(ss) ==
    IF ss = <<>> THEN 0 ELSE ss[1].duration + sumDuration(Tail(ss))

\* The file as saveData writes it.
written(data) == [exists |-> TRUE, parsable |-> TRUE, data |-> data]

\* No DATA_FILE: the program never ran, or never saved.
NoFile == [exists |-> FALSE, parsable |-> FALSE, data |-> NoData]

\* The files the program may find at its first start: none, one that is not
\* JSON, one that earlier runs wrote.
InitialFiles ==
    {NoFile,
     [exists |-> TRUE, parsable |-> FALSE, data |-> NoData],
     written([d \in {EarlierDay} |->
                 [total |-> 5, sessions |-> <<EarlierSession>>]])}

\* JSON.parse(fs.readFileSync(DATA_FILE)): the mapping, or nothing when
\* either of them throws.
readFile(f, ok) == IF ok /\ f.parsable THEN <<f.data>> ELSE <<>>

\* A slip of saveData: it writes the entry of dateKey alone.
saveData_alone(f, dateKey, ss, ok) ==
    IF (f.exists /\ readFile(f, ok) = <<>>) \/ ~ok THEN f
    ELSE written([d \in {dateKey} |->
                     [total |-> sumDuration(ss), sessions |-> ss]])

\* saveData: read the file, replace the entry of dateKey, write the file.
\* A throw of the read, of the parse or of the write is caught and logged,
\* and leaves the file as it was.
saveData(f, dateKey, ss, ok) ==
    IF (f.exists /\ readFile(f, ok) = <<>>) \/ ~ok THEN f
    ELSE LET allData == IF f.exists THEN readFile(f, ok)[1] ELSE NoData
             entry == [total |-> sumDuration(ss), sessions |-> ss]
         IN written([d \in DOMAIN allData \cup {dateKey} |->
                        IF d = dateKey THEN entry ELSE allData[d]])

\* A slip of loadData: the sessions of the file are not taken over.
loadData_empty(f, today, ok) == <<>>

\* loadData: the sessions the file holds for today, if any; the initial
\* empty list when there is no file or reading it throws.
loadData(f, today, ok) ==
    IF f.exists /\ readFile(f, ok) # <<>>
                /\ today \in DOMAIN readFile(f, ok)[1]
    THEN readFile(f, ok)[1][today].sessions ELSE <<>>

NoFlags == [h6 |-> FALSE, h8 |-> FALSE, h10 |-> FALSE]

\* Suspended calls of checkActivity: at `await isChromeRunning()`, and at
\* `await getIdleTime()` with chromeOpen true (open) or false (closed).
NoSteps == [chrome |-> 0, open |-> 0, closed |-> 0]
pending(steps) == steps.chrome + steps.open + steps.closed

(* ------------------------------------------------------------------- Init *)

\* The program has started at T0 and found the file f.
Boot(f) ==
    /\ now = T0
    /\ running = TRUE
    /\ life = 0
    /\ elapsed = 0
    /\ currentSessionStart = null
    /\ file = f
    /\ io = <<>>
    /\ sessions = loadData(file, getLocalDateStr(T0), TRUE)
    /\ currentDate = getLocalDateStr(T0)
    /\ status = "Initializing"
    /\ isTracking = FALSE
    /\ notificationsSent = NoFlags
    /\ inflight = NoSteps
    /\ notifications = <<>>
    /\ emitted = <<>>
    /\ sample = <<>>

\* The first run of the program: there is no DATA_FILE yet.
Init == Boot(NoFile)

\* A run of the program over a DATA_FILE that earlier runs, or something
\* else, left behind.
InitStore == \E f \in InitialFiles : Boot(f)

(* --------------------------------------------------------------- sensors *)

\* isChromeRunning: false when tasklist fails, else whether its output
\* names chrome.exe.
isChromeRunning(err, present) == IF err THEN FALSE ELSE present

\* getIdleTime: 0 when the idle probe fails (desktop-idle throws and the
\* PowerShell fallback fails too), else the idle seconds it measured.
getIdleTime(err, seconds) == IF err THEN 0 ELSE seconds

\* A slip of the comparison: idle of exactly 120 seconds still counts as work.
isWorking_inclusive(chromeOpen, idleSeconds) ==
    chromeOpen /\ idleSeconds <= IdleLimit

\* checkActivity line 271: working if Chrome is open and idle < 120 seconds.
isWorking(chromeOpen, idleSeconds) == chromeOpen /\ idleSeconds < IdleLimit

(* -------------------------------------------------------------- sessions *)

\* The object pushed on trackingData.sessions for the interval [start, end].
session(start, end) ==
    [start |-> toISOString(start), end |-> toISOString(end),
     duration |-> (end - start) \div 1000]

\* A slip of the commit: the session is pushed whatever its duration.
commitSession_unguarded(ss, start, end) == Append(ss, session(start, end))

\* `if (duration > 0) sessions.push(...)`, of the rollover and of the pause.
commitSession(ss, start, end) ==
    IF (end - start) \div 1000 > 0 THEN Append(ss, session(start, end)) ELSE ss

(* ------------------------------------------------------- daily aggregate *)

\* A slip of the aggregate: the session's seconds, not clipped to the day.
overlapSeconds_unclipped(sStart, sEnd, t) ==
    IF sStart < sEnd THEN (sEnd - sStart) \div 1000 ELSE 0

\* Whole seconds of [sStart, sEnd] inside the local day of t.
overlapSeconds(sStart, sEnd, t) ==
    LET dayStart == startOfDay(t)
        endOfDay == dayStart + DayMs
        overlapStart == IF sStart < dayStart THEN dayStart ELSE sStart
        overlapEnd == IF sEnd > endOfDay THEN endOfDay ELSE sEnd
    IN IF overlapStart < overlapEnd
       THEN (overlapEnd - overlapStart) \div 1000 ELSE 0

RECURSIVE reduceSessions(_, _)
reduceSessions(ss, t) ==
    IF ss = <<>> THEN 0
    ELSE overlapSeconds(parseDate(ss[1].start), parseDate(ss[1].end), t)
         + reduceSessions(Tail(ss), t)

\* totalSecondsFunc: the committed sessions, plus the open one if tracking.
totalSecondsFunc(ss, tr, css, t) ==
    reduceSessions(ss, t)
    + (IF tr /\ css # null THEN overlapSeconds(css, t, t) ELSE 0)

(* ---------------------------------------------------------- notifications *)

\* `!notificationsSent.hN && totalSecondsFunc >= limit`
shouldNotify(sent, total, limit) == ~sent /\ total >= limit

\* A slip of the flags: each is set to whether its notification was shown
\* in this step.
flagsAfter_latest(flags, total) ==
    [h6 |-> shouldNotify(flags.h6, total, H6),
     h8 |-> shouldNotify(flags.h8, total, H8),
     h10 |-> shouldNotify(flags.h10, total, H10)]

\* The flags after the three checks of one step.
flagsAfter(flags, total) ==
    [h6 |-> flags.h6 \/ shouldNotify(flags.h6, total, H6),
     h8 |-> flags.h8 \/ shouldNotify(flags.h8, total, H8),
     h10 |-> flags.h10 \/ shouldNotify(flags.h10, total, H10)]

\* The notifications one step shows, in the order it shows them.
shown(flags, total, lf, t, date) ==
    LET ev(h) == [life |-> lf, day |-> getLocalDateStr(t), date |-> date,
                  hours |-> h]
    IN (IF shouldNotify(flags.h6, total, H6) THEN <<ev(6)>> ELSE <<>>)
       \o (IF shouldNotify(flags.h8, total, H8) THEN <<ev(8)>> ELSE <<>>)
       \o (IF shouldNotify(flags.h10, total, H10) THEN <<ev(10)>> ELSE <<>>)

(* ---------------------------------------------------------------- actions *)

\* The clock moves on.
Advance(d) ==
    /\ IF d = LongGapMs THEN gapsAt(now) < MaxLongGaps
                        ELSE ticksAt(now) < MaxTicks
    /\ now' = now + d
    /\ elapsed' = IF ~running THEN elapsed
                  ELSE IF elapsed + d < TickMs THEN elapsed + d ELSE TickMs
    /\ emitted' = <<>>
    /\ io' = <<>>
    /\ UNCHANGED <<running, life, tracking, file, inflight, notifications,
                   sample>>

\* The store call of an action: "load" or "save", and the file system's
\* refusal.
call(op, fault) == <<[op |-> op, fault |-> fault]>>

\* May the interval callback start another checkActivity?  setInterval calls
\* it on every expiry of the period, whatever is still in flight.
mayStart(steps) == TRUE

\* A slip of the rollover: currentDate is set before saveData runs.
flushKey_after(oldDate, todayStr) == todayStr

\* The key the rollover's saveData writes: it runs before currentDate is
\* set to todayStr, so dateKey is the old date.
flushKey(oldDate, todayStr) == oldDate

\* A slip of the rollover: the open session keeps its old start.
startAtRollover_kept(tr, css, t) == css

\* A slip of the rollover: the open session is closed, not continued.
startAtRollover_closed(tr, css, t) == null

\* currentSessionStart after the rollover block: Date.now() if a session
\* was open, else as it was.
startAtRollover(tr, css, t) == IF tr /\ css # null THEN t ELSE css

\* setInterval fires: checkActivity runs its rollover block and suspends at
\* `await isChromeRunning()`.
Tick(fault) ==
    /\ running
    /\ elapsed >= TickMs
    /\ pending(inflight) < MaxInFlight
    /\ mayStart(inflight)
    /\ LET todayStr == getLocalDateStr(now) IN
        IF todayStr # currentDate
        THEN IF isTracking /\ currentSessionStart # null
             THEN /\ file' = saveData(file, flushKey(currentDate, todayStr),
                        commitSession(sessions, currentSessionStart, now),
                        ~fault)
                  /\ sessions' = <<>>
                  /\ currentDate' = todayStr
                  /\ currentSessionStart' =
                        startAtRollover(isTracking, currentSessionStart, now)
                  /\ notificationsSent' = NoFlags
                  /\ io' = call("save", fault)
             ELSE /\ file' = saveData(file, flushKey(currentDate, todayStr),
                                      sessions, ~fault)
                  /\ sessions' = <<>>
                  /\ currentDate' = todayStr
                  /\ currentSessionStart' =
                        startAtRollover(isTracking, currentSessionStart, now)
                  /\ notificationsSent' = NoFlags
                  /\ io' = call("save", fault)
        ELSE /\ ~fault
             /\ io' = <<>>
             /\ UNCHANGED <<file, sessions, currentDate, currentSessionStart,
                            notificationsSent>>
    /\ inflight' = [inflight EXCEPT !.chrome = @ + 1]
    /\ elapsed' = 0
    /\ emitted' = <<>>
    /\ UNCHANGED <<now, running, life, status, isTracking, notifications,
                   sample>>

\* Where a call is suspended once isChromeRunning resolved with `open`.
awaitingIdle(open) == IF open THEN "open" ELSE "closed"

\* isChromeRunning resolves for one suspended step.
ChromeResolve(err, present) ==
    /\ running
    /\ inflight.chrome > 0
    /\ LET open == isChromeRunning(err, present)
       IN inflight' = [inflight EXCEPT !.chrome = @ - 1,
                                       ![awaitingIdle(open)] = @ + 1]
    /\ emitted' = <<>>
    /\ io' = <<>>
    /\ UNCHANGED <<now, running, life, elapsed, tracking, file,
                   notifications, sample>>

\* The session list after the state transition of a step (lines 273-306).
sessionsAfter(working, tr, css, ss, t) ==
    IF ~working /\ tr /\ css # null THEN commitSession(ss, css, t) ELSE ss

\* A slip of the pause: currentSessionStart is not cleared.
startAfter_kept(working, tr, css, t) ==
    IF working THEN (IF tr THEN css ELSE t) ELSE css

\* currentSessionStart after the state transition of a step.
startAfter(working, tr, css, t) ==
    IF working THEN (IF tr THEN css ELSE t) ELSE (IF tr THEN null ELSE css)

\* A slip of the status: a pause is shown as idle whatever caused it.
statusAfter_idle(working, chromeOpen) ==
    IF working THEN "Tracking (Working)" ELSE "Paused (Idle)"

\* trackingData.status after the state transition of a step.
statusAfter(working, chromeOpen) ==
    IF working THEN "Tracking (Working)"
    ELSE IF ~chromeOpen THEN "Paused (Chrome Closed)"
    ELSE "Paused (Idle)"

\* getIdleTime resolves for one suspended step, which runs to its end.
IdleResolve(chromeOpen, err, seconds, fault) ==
    /\ running
    /\ inflight[awaitingIdle(chromeOpen)] > 0
    /\ LET idleSeconds == getIdleTime(err, seconds)
           working == isWorking(chromeOpen, idleSeconds)
           ss == sessionsAfter(working, isTracking, currentSessionStart,
                               sessions, now)
           css == startAfter(working, isTracking, currentSessionStart, now)
           total == totalSecondsFunc(ss, working, css, now)
           st == statusAfter(working, chromeOpen)
       IN /\ isTracking' = working
          /\ currentSessionStart' = css
          /\ sessions' = ss
          /\ IF ss # sessions
             THEN /\ file' = saveData(file, currentDate, ss, ~fault)
                  /\ io' = call("save", fault)
             ELSE /\ ~fault
                  /\ io' = <<>>
                  /\ UNCHANGED file
          /\ status' = st
          /\ notificationsSent' = flagsAfter(notificationsSent, total)
          /\ notifications' = notifications
                \o shown(notificationsSent, total, life, now, currentDate)
          /\ emitted' = <<[totalSeconds |-> total, status |-> st,
                           isTracking |-> working,
                           currentDate |-> currentDate]>>
          /\ sample' = <<[chromeOpen |-> chromeOpen, idleFailed |-> err,
                          idleSeconds |-> idleSeconds]>>
    /\ inflight' = [inflight EXCEPT ![awaitingIdle(chromeOpen)] = @ - 1]
    /\ UNCHANGED <<now, running, life, elapsed, currentDate>>

\* Tray menu Quit: isQuitting = true; app.quit().  The process exits; its
\* memory and its suspended steps are gone.
Quit ==
    /\ running
    /\ running' = FALSE
    /\ inflight' = NoSteps
    /\ elapsed' = 0
    /\ currentSessionStart' = null
    /\ sessions' = <<>>
    /\ status' = "Initializing"
    /\ isTracking' = FALSE
    /\ notificationsSent' = NoFlags
    /\ emitted' = <<>>
    /\ sample' = <<>>
    /\ io' = <<>>
    /\ UNCHANGED <<now, life, currentDate, file, notifications>>

\* The process starts: trackingData is initialised, app.whenReady() runs
\* loadData() and arms the interval timer.
Start(fault) ==
    /\ ~running
    /\ life < MaxRestarts
    /\ running' = TRUE
    /\ life' = life + 1
    /\ elapsed' = 0
    /\ currentSessionStart' = null
    /\ sessions' = loadData(file, getLocalDateStr(now), ~fault)
    /\ IF file.exists THEN io' = call("load", fault)
                      ELSE ~fault /\ io' = <<>>
    /\ currentDate' = getLocalDateStr(now)
    /\ status' = "Initializing"
    /\ isTracking' = FALSE
    /\ notificationsSent' = NoFlags
    /\ inflight' = NoSteps
    /\ emitted' = <<>>
    /\ sample' = <<>>
    /\ UNCHANGED <<now, file, notifications>>

\* The program on a file system that refuses no call.
Next ==
    \/ \E d \in Deltas : Advance(d)
    \/ Tick(FALSE)
    \/ \E err, present \in BOOLEAN : ChromeResolve(err, present)
    \/ \E open, err \in BOOLEAN, idle \in IdleSamples :
           IdleResolve(open, err, idle, FALSE)
    \/ Quit
    \/ Start(FALSE)

Spec == Init /\ [][Next]_vars

\* The program on a file system that may refuse any call.
NextStore ==
    \/ \E d \in Deltas : Advance(d)
    \/ \E fault \in BOOLEAN : Tick(fault)
    \/ \E err, present \in BOOLEAN : ChromeResolve(err, present)
    \/ \E open, err, fault \in BOOLEAN, idle \in IdleSamples :
           IdleResolve(open, err, idle, fault)
    \/ Quit
    \/ \E fault \in BOOLEAN : Start(fault)

SpecStore == InitStore /\ [][NextStore]_vars

(* ----------------------------------------------------------------- claims *)

Max(a, b) == IF a > b THEN a ELSE b
Min(a, b) == IF a < b THEN a ELSE b
Last(s) == s[Len(s)]

\* C1: at most one invocation of checkActivity is between its start and its
\* end: a tick that falls while a step awaits its sensors is skipped.
C1_AtMostOneStepInFlight == pending(inflight) <= 1

\* C2: on Quit an open session is closed at the termination time and, when
\* its duration is > 0, is in the persisted entry of current_date afterwards.
C2_QuitFlushesOpenSession ==
    [][(/\ running /\ ~running'
        /\ currentSessionStart # null
        /\ (now - currentSessionStart) \div 1000 > 0) =>
            /\ file'.exists
            /\ currentDate \in DOMAIN file'.data
            /\ \E i \in 1..Len(file'.data[currentDate].sessions) :
                   file'.data[currentDate].sessions[i]
                     = session(currentSessionStart, now)
      ]_vars

\* C3: in every reachable state, also while a step awaits its sensors,
\* is_tracking is true if and only if current_session_start is non-null.
C3_TrackingIffSessionOpen == isTracking <=> (currentSessionStart # null)

\* A step awaits its sensors after a rollover that kept a session open.
C3_Witness ==
    /\ isTracking
    /\ currentSessionStart # null
    /\ pending(inflight) > 0
    /\ currentDate # getLocalDateStr(T0)

wellFormed(s) ==
    /\ parseDate(s.start) < parseDate(s.end)
    /\ s.duration = (parseDate(s.end) - parseDate(s.start)) \div 1000
    /\ s.duration > 0

\* C4: every session the tracker appended, by the pause commit (in memory)
\* or by the rollover split (flushed to the old date and then dropped from
\* memory), has start < end and duration = floor((end - start)/1000) > 0.
C4_CommittedSessionsWellFormed ==
    /\ \A i \in 1..Len(sessions) : wellFormed(sessions[i])
    /\ \A d \in DOMAIN file.data :
           \A i \in 1..Len(file.data[d].sessions) :
               wellFormed(file.data[d].sessions[i])

\* A pause commit is in memory and a rollover commit is stored under the
\* old date.
C4_Witness ==
    /\ Len(sessions) > 0
    /\ currentDate # getLocalDateStr(T0)
    /\ getLocalDateStr(T0) \in DOMAIN file.data
    /\ Len(file.data[getLocalDateStr(T0)].sessions) > 0

\* C5: after each completed step is_tracking equals "target app running and
\* idle seconds < 120" of that step's samples, and it keeps that value until
\* the next step completes (sample holds the samples of the step that
\* completed last).
C5_TrackingFollowsWorking ==
    sample # <<>> =>
        (isTracking <=> (sample[1].chromeOpen /\ sample[1].idleSeconds < 120))

\* A step that sampled idle = 120 with the app running closed a session.
C5_Witness ==
    /\ sample # <<>>
    /\ sample[1].chromeOpen
    /\ sample[1].idleSeconds = 120
    /\ ~isTracking
    /\ Len(sessions) > 0

\* C6: within one process lifetime a threshold's notification is shown at
\* most once on each local calendar day.
C6_OncePerDayInLifetime ==
    \A i, j \in 1..Len(notifications) :
        (/\ i < j
         /\ notifications[i].life = notifications[j].life
         /\ notifications[i].hours = notifications[j].hours)
        => notifications[i].day # notifications[j].day

\* C7: over the whole history a threshold's notification is shown at most
\* once on each local calendar day, also when the process exited and was
\* started again on that day and re-seeded its sessions from the store.
C7_OncePerDayAcrossRestarts ==
    \A i, j \in 1..Len(notifications) :
        (/\ i < j
         /\ notifications[i].life # notifications[j].life
         /\ notifications[i].hours = notifications[j].hours)
        => notifications[i].day # notifications[j].day

\* The rollover block ran in this step while a session was open.
rolloverWhileOpen ==
    running /\ running' /\ currentDate' # currentDate
    /\ isTracking /\ currentSessionStart # null

\* C8: a rollover with a session open that began before midnight splits it
\* at local midnight, within a timer period: the second part starts less
\* than a period after midnight, and the first part is stored under the old
\* date from the session's start to the start of the second part (or was
\* shorter than a period).
C8_RolloverSplitsAtMidnight ==
    [][LET midnight == (currentDate + 1) * DayMs - TzOffsetMs
           stored == file'.data[currentDate].sessions
       IN (rolloverWhileOpen /\ currentSessionStart < midnight) =>
            /\ currentSessionStart' >= midnight
            /\ currentSessionStart' - midnight < TickMs
            /\ \/ currentSessionStart' - currentSessionStart < TickMs
               \/ /\ stored # <<>>
                  /\ Last(stored)
                       = session(currentSessionStart, currentSessionStart')
      ]_vars

\* Both ends of a session lie in the local day d (the instant of the next
\* midnight counted as the day's end).
insideDay(s, d) ==
    /\ getLocalDateStr(parseDate(s.start)) = d
    /\ parseDate(s.end) >= startOfDay(parseDate(s.start))
    /\ parseDate(s.end) <= startOfDay(parseDate(s.start)) + DayMs

\* C9: whenever a session is appended, by the pause commit or by the
\* rollover commit, its start and its end lie in the local calendar day that
\* current_date names at that moment.
C9_AppendedInsideCurrentDate ==
    [][/\ (running /\ running' /\ Len(sessions') = Len(sessions) + 1)
            => insideDay(Last(sessions'), currentDate)
       /\ (running /\ running' /\ currentDate' # currentDate
           /\ Len(file'.data[currentDate].sessions) = Len(sessions) + 1)
            => insideDay(Last(file'.data[currentDate].sessions), currentDate)
      ]_vars

\* Whole seconds of the interval [a, b] inside the local day of t.
clipped(a, b, t) ==
    Max(0, Min(b, startOfDay(t) + DayMs) - Max(a, startOfDay(t))) \div 1000

RECURSIVE clippedSum(_, _)
clippedSum(ss, t) ==
    IF ss = <<>> THEN 0
    ELSE clipped(parseDate(ss[1].start), parseDate(ss[1].end), t)
         + clippedSum(Tail(ss), t)

\* C10: the total_seconds a step emits is the sum of the committed in-memory
\* sessions' whole seconds inside the local day of now, plus those of the
\* open session up to now; it never exceeds the time since local midnight,
\* whatever the store holds under other dates.
C10_AggregateIsClippedSum ==
    emitted # <<>> =>
        /\ emitted[1].totalSeconds
             = clippedSum(sessions, now)
               + (IF currentSessionStart # null
                  THEN clipped(currentSessionStart, now, now) ELSE 0)
        /\ emitted[1].totalSeconds <= (now - startOfDay(now)) \div 1000

\* A step emitted a positive aggregate that clipping made smaller than the
\* sessions' own seconds, while the store holds sessions under a date other
\* than the local day of now.
C10_Witness ==
    /\ emitted # <<>>
    /\ emitted[1].totalSeconds > 0
    /\ emitted[1].totalSeconds < sumDuration(sessions)
    /\ \E d \in DOMAIN file.data :
           d # getLocalDateStr(now) /\ file.data[d].total > 0

\* The session s is in the list ss.
member(s, ss) == \E i \in 1..Len(ss) : ss[i] = s

\* The saveData call of this step did not write the file: the file system
\* refused it, or the file it read first was not JSON.
saveFailed ==
    /\ io' # <<>>
    /\ io'[1].op = "save"
    /\ io'[1].fault \/ (file.exists /\ ~file.parsable)

\* The file f holds the session s under the date d.
persisted(f, d, s) ==
    f.exists /\ f.parsable /\ d \in DOMAIN f.data
    /\ member(s, f.data[d].sessions)

\* C11: when the Save of a flush point fails, every session of the
\* in-memory list that no Save has written yet stays in the list, under the
\* same date: a failed Save never drops an unsaved session from memory.
C11_FailedSaveKeepsSessions ==
    [][saveFailed =>
         \A i \in 1..Len(sessions) :
            \/ persisted(file', currentDate, sessions[i])
            \/ member(sessions[i], sessions') /\ currentDate' = currentDate
      ]_vars

\* C12: a session once written under a date is still in the file under that
\* date after any later startup, step, rollover and Load or Save failure.
C12_PersistedSessionsStay ==
    [][\A d \in DOMAIN file.data :
         \A i \in 1..Len(file.data[d].sessions) :
            /\ file'.exists /\ file'.parsable
            /\ d \in DOMAIN file'.data
            /\ member(file.data[d].sessions[i], file'.data[d].sessions)
      ]_vars

\* C13: a step whose idle probe failed is classified as not working: after
\* it no session is open, whatever the process probe reported.
C13_IdleFailureNotWorking ==
    (sample # <<>> /\ sample[1].idleFailed) =>
        ~isTracking /\ currentSessionStart = null

\* A saveData call ran in this step.
saveCalled == io' # <<>> /\ io'[1].op = "save"

\* C14: an unparsable file is handled like a missing one: the tracker starts
\* with an empty list, and a Save the file system does not refuse writes a
\* well-formed file that holds the entry of current_date.
C14_CorruptFileLikeMissing ==
    [][(file.exists /\ ~file.parsable /\ saveCalled /\ ~io'[1].fault) =>
          /\ file'.exists /\ file'.parsable
          /\ currentDate \in DOMAIN file'.data
      ]_vars

\* C15: a Save changes only the entry keyed by the tracker's current_date
\* (the old date, in a rollover): every other date has the same entry in the
\* file before and after the step, and no other date is added or removed.
C15_SaveTouchesOnlyCurrentDate ==
    [][\A d \in DOMAIN file.data \cup DOMAIN file'.data :
          d # currentDate =>
             /\ d \in DOMAIN file.data
             /\ d \in DOMAIN file'.data
             /\ file'.data[d] = file.data[d]
      ]_vars

\* A pause commit of the new day was saved into a file that holds the
\* sessions of the day before.
C15_Witness ==
    /\ io = call("save", FALSE)
    /\ file.exists /\ file.parsable
    /\ currentDate \in DOMAIN file.data
    /\ file.data[currentDate].sessions = sessions
    /\ sessions # <<>>
    /\ \E d \in DOMAIN file.data :
           d # currentDate /\ file.data[d].sessions # <<>>

\* The sessions a well-formed file holds for the date d: none if it has no
\* entry for d.
stored(f, d) == IF d \in DOMAIN f.data THEN f.data[d].sessions ELSE <<>>

\* C16: loading a well-formed file and saving with no tracker change leaves
\* the persisted mapping as it was: a Save of a list equal to what the file
\* holds for current_date changes neither the date keys nor the day records,
\* also when the file has no entry for that date.
C16_LoadSaveRoundTrip ==
    [][(/\ file.exists /\ file.parsable
        /\ saveCalled /\ ~io'[1].fault
        /\ ~isTracking
        /\ sessions = stored(file, currentDate)) =>
            /\ DOMAIN file'.data = DOMAIN file.data
            /\ file'.data = file.data
      ]_vars

\* The rollover block ran in this step.
rollover == running /\ running' /\ currentDate' # currentDate

\* The list ss begins with the list pre.
startsWith(ss, pre) ==
    Len(pre) <= Len(ss) /\ \A i \in 1..Len(pre) : ss[i] = pre[i]

\* C17: on a rollover the accumulated sessions are flushed under the old
\* current_date, before current_date and sessions are reset: after the block
\* the file holds them under the old key (unless the Save failed), nothing
\* was saved under the new date, sessions is empty and current_date is the
\* local date of now.
C17_RolloverFlushesOldDate ==
    [][rollover =>
         /\ sessions' = <<>>
         /\ currentDate' = getLocalDateStr(now')
         /\ now' = now
         /\ ~saveFailed =>
               /\ file'.exists /\ file'.parsable
               /\ currentDate \in DOMAIN file'.data
               /\ startsWith(file'.data[currentDate].sessions, sessions)
         /\ IF file.exists /\ file.parsable /\ currentDate' \in DOMAIN file.data
            THEN file'.data[currentDate'] = file.data[currentDate']
            ELSE currentDate' \notin DOMAIN file'.data
      ]_vars

\* A rollover has just flushed a committed session under the old date and
\* nothing under the new one.
C17_Witness ==
    /\ io = call("save", FALSE)
    /\ sessions = <<>>
    /\ currentDate = getLocalDateStr(now)
    /\ currentDate # getLocalDateStr(T0)
    /\ getLocalDateStr(T0) \in DOMAIN file.data
    /\ file.data[getLocalDateStr(T0)].sessions # <<>>
    /\ currentDate \notin DOMAIN file.data
    /\ ~isTracking

\* C18: between two rollovers the set of notification flags only grows (no
\* step without a rollover unsets a flag), and right after every rollover,
\* tracking or not, all three flags are unset.
C18_FlagsGrowUntilRollover ==
    [][/\ (running /\ running' /\ currentDate' = currentDate) =>
             /\ notificationsSent.h6 => notificationsSent'.h6
             /\ notificationsSent.h8 => notificationsSent'.h8
             /\ notificationsSent.h10 => notificationsSent'.h10
       /\ rollover =>
             /\ ~notificationsSent'.h6
             /\ ~notificationsSent'.h8
             /\ ~notificationsSent'.h10
      ]_vars

\* A rollover has just unset the flag of a notification that this process
\* had shown under the old date.
C18_Witness ==
    /\ io # <<>> /\ io[1].op = "save"
    /\ currentDate # getLocalDateStr(T0)
    /\ ~notificationsSent.h6
    /\ \E i \in 1..Len(notifications) :
           /\ notifications[i].life = life
           /\ notifications[i].date = getLocalDateStr(T0)
           /\ notifications[i].hours = 6

\* C19: the rollover block leaves is_tracking as it was: a session open
\* before it is open after it and starts at the time of the rollover, in
\* the new day; if none was open, none is open after it.
C19_RolloverKeepsTracking ==
    [][rollover =>
         /\ isTracking' = isTracking
         /\ IF currentSessionStart # null
            THEN /\ currentSessionStart' = now
                 /\ getLocalDateStr(currentSessionStart') = currentDate'
            ELSE currentSessionStart' = null
      ]_vars

\* A rollover has just continued an open session at the time of the
\* rollover, after flushing its first part under the old date.
C19_Witness ==
    /\ io # <<>> /\ io[1].op = "save"
    /\ currentDate # getLocalDateStr(T0)
    /\ isTracking
    /\ currentSessionStart = now
    /\ sessions = <<>>
    /\ getLocalDateStr(T0) \in DOMAIN file.data
    /\ file.data[getLocalDateStr(T0)].sessions # <<>>

\* C20: after every completed step the status is Working exactly when
\* is_tracking holds; otherwise it is PausedAppClosed if the step sampled the
\* target app absent and PausedIdle if it sampled it present, whatever the
\* status was before.
C20_StatusFollowsSample ==
    sample # <<>> =>
        /\ (status = "Tracking (Working)") <=> isTracking
        /\ ~isTracking =>
              status = (IF sample[1].chromeOpen THEN "Paused (Idle)"
                        ELSE "Paused (Chrome Closed)")

\* A step that sampled the app absent completed while the last session had
\* been closed by an idle pause or by this step: the status names the
\* absent app.
C20_Witness ==
    /\ sample # <<>>
    /\ ~sample[1].chromeOpen
    /\ status = "Paused (Chrome Closed)"
    /\ ~isTracking
    /\ sessions # <<>>
    /\ emitted # <<>>
    /\ emitted[1].status = status

\* This process has shown the notification of `hours` since the last
\* rollover (under the current value of currentDate).
shownSinceRollover(hours) ==
    \E i \in 1..Len(notifications) :
        /\ notifications[i].life = life
        /\ notifications[i].date = currentDate
        /\ notifications[i].hours = hours

\* At the end of a step whose aggregate is at or above a threshold, the
\* threshold's flag is set and its notification has been shown, in this
\* step or in an earlier one since the last rollover.
firedWhenReached ==
    emitted # <<>> =>
        /\ emitted[1].totalSeconds >= 21600 =>
              notificationsSent.h6 /\ shownSinceRollover(6)
        /\ emitted[1].totalSeconds >= 28800 =>
              notificationsSent.h8 /\ shownSinceRollover(8)
        /\ emitted[1].totalSeconds >= 36000 =>
              notificationsSent.h10 /\ shownSinceRollover(10)

\* No threshold's notification was shown twice on one local calendar day.
onceOnEachDay ==
    \A i, j \in 1..Len(notifications) :
        (i < j /\ notifications[i].hours = notifications[j].hours)
        => notifications[i].day # notifications[j].day

\* C21: whenever a step computes an aggregate at or above a threshold, at
\* the end of that step the threshold's flag is set and its notification has
\* been shown in this step or earlier since the last rollover; so on any day
\* whose aggregate reaches a threshold the notification is shown exactly
\* once.
C21_FiresExactlyOnceWhenReached == firedWhenReached /\ onceOnEachDay

\* C22: in runs without Load or Save failures, whenever no step is in
\* flight the sessions the file holds for current_date (none, when it has no
\* entry for that date) are the in-memory sessions: every committed session
\* is on disk, only the open one is not.
C22_StoreMirrorsMemory ==
    (running /\ pending(inflight) = 0) => stored(file, currentDate) = sessions

\* A process started again holds the sessions an earlier lifetime saved
\* today, plus one it committed itself, and no step is in flight.
C22_Witness ==
    /\ running
    /\ life > 0
    /\ pending(inflight) = 0
    /\ Len(sessions) > 1
    /\ file.exists /\ file.parsable
    /\ currentDate \in DOMAIN file.data
    /\ file.data[currentDate].sessions = sessions

\* The sessions of the list ss are in chronological order and do not
\* overlap: each starts at or after the end of the one before it.
chronological(ss) ==
    \A i \in 1..(Len(ss) - 1) :
        parseDate(ss[i + 1].start) >= parseDate(ss[i].end)

\* C23: the sessions the tracker appended are in chronological order and
\* pairwise non-overlapping, in memory and in every list it flushed, and the
\* open session starts at or after the end of every committed session, also
\* while steps overlap.
C23_SessionsDoNotOverlap ==
    /\ chronological(sessions)
    /\ \A d \in DOMAIN file.data : chronological(file.data[d].sessions)
    /\ currentSessionStart # null =>
          /\ \A i \in 1..Len(sessions) :
                 currentSessionStart >= parseDate(sessions[i].end)
          /\ \A d \in DOMAIN file.data :
                 \A i \in 1..Len(file.data[d].sessions) :
                    currentSessionStart
                      >= parseDate(file.data[d].sessions[i].end)

\* While a step is in flight, a session is open that starts at the very
\* end of the session committed last, after a rollover that flushed an
\* earlier one.
C23_Witness ==
    /\ pending(inflight) > 0
    /\ currentSessionStart # null
    /\ sessions # <<>>
    /\ currentSessionStart = parseDate(Last(sessions).end)
    /\ \E d \in DOMAIN file.data :
           d # currentDate /\ file.data[d].sessions # <<>>
====
